---- MODULE Spec2Model ----
(***************************************************************************)
(* The authenticated API session layer of tuitter:                         *)
(*   RealAPI.set_token, RealAPI._request and RealAPI.try_restore_session   *)
(*   (src/tuitter/api_interface.py) and the TokenState operations of the    *)
(*   UI (src/tuitter/main.py: login worker, show_main_app,                  *)
(*   show_auth_screen, sign-out).                                           *)
(*                                                                         *)
(* Each Python thread is a process with a program counter pc[t] and a call *)
(* stack stk[t] of return labels.  Every access to the shared `api` object *)
(* (api.token, api.session.headers, api.handle) and to the credential      *)
(* store is a step of its own, so that threads interleave between the      *)
(* statements of the source.                                               *)
(***************************************************************************)
EXTENDS Naturals, Sequences, FiniteSets, TLC

\* Number of top-level operations (requests, restores, UI transitions,
\* logins) started in one behaviour.
MaxOps == 2

\* Number of times, in one behaviour, a collaborator (backend, refresh
\* endpoint, credential store, login flow) departs from its regular answer.
MaxFaults == 2

\* App.on_mount's restore budget (allow_restore_time = 2.0 s) and the sleep
\* between two attempts (0.1 s), in ticks of 100 ms; the ticks a slow
\* attempt takes.
Budget == 20
Backoff == 1
SlowTicks == 7

Threads == {"ui", "worker", "worker2"}

\* Python's None / a missing dict key / a missing header.
NoVal == "none"

\* HTTP verbs handed to _request by _get, _post, _patch and by a caller
\* using another verb.
Methods == {"GET", "POST", "PATCH", "DELETE"}

\* api.handle values: the unauthenticated sentinel and account names.
Sentinel == "yourname"

\* f"Bearer {self.token}"
BearerBare(tok) == tok
Bearer(tok) == "Bearer " \o tok

\* The access token persisted before the program started, and the n-th
\* access / refresh token minted afterwards.
OldAccess == "a0"
OldRefresh == "r0"
MintAccess(n) == "a" \o ToString(n)
MintRefresh(n) == "r" \o ToString(n)

\* ----------------------------------------------------------------------
\* Credential blobs, as auth_storage.load_tokens() hands them to
\* try_restore_session.
\*   kind     "absent" (falsy), "badstr" (a string json.loads rejects), "dict"
\*   wrapped  'tokens' in found and isinstance(found['tokens'], dict)
\*   access, refresh   found['tokens'] entries;  topRefresh  found['refresh_token']
\* ----------------------------------------------------------------------
Blob(kind, wrapped, username, access, refresh, topRefresh) ==
    [kind |-> kind, wrapped |-> wrapped, username |-> username,
     access |-> access, refresh |-> refresh, topRefresh |-> topRefresh]

AbsentBlob == Blob("absent", FALSE, NoVal, NoVal, NoVal, NoVal)

InitBlobs ==
    { AbsentBlob,
      Blob("badstr", FALSE, NoVal, NoVal, NoVal, NoVal),
      Blob("dict", TRUE, "alice", OldAccess, OldRefresh, NoVal),  \* full pair
      Blob("dict", TRUE, "alice", OldAccess, NoVal, NoVal),       \* access token only
      Blob("dict", TRUE, NoVal, OldAccess, OldRefresh, NoVal),    \* full pair, no username
      Blob("dict", TRUE, "alice", NoVal, OldRefresh, NoVal),      \* refresh-only, wrapped
      Blob("dict", FALSE, "alice", NoVal, NoVal, OldRefresh),     \* refresh-only, top level
      Blob("dict", FALSE, NoVal, NoVal, NoVal, OldRefresh) }

\* ----------------------------------------------------------------------
\* Backend responses.
\* ----------------------------------------------------------------------
Resp(status, json) == [kind |-> "resp", status |-> status, json |-> json]
NetErr == [kind |-> "neterr", status |-> 0, json |-> FALSE]
NoResp == [kind |-> "noresp", status |-> 0, json |-> FALSE]

\* How a response reads in the record of calls.
Status(r) == IF r.kind = "neterr" THEN "neterr" ELSE ToString(r.status)

AllResponses ==
    { Resp(200, TRUE), Resp(200, FALSE), Resp(400, FALSE), Resp(401, FALSE),
      Resp(403, FALSE), Resp(404, FALSE), Resp(500, FALSE), NetErr }

VARIABLES
    token,      \* api.token
    header,     \* api.session.headers["Authorization"], NoVal when absent
    handle,     \* api.handle
    store,      \* the persisted credential blob
    env,        \* the collaborators: [valid, refreshOk, faults]
    issued,     \* number of access tokens minted by the refresh endpoint / login
    pc,         \* pc[t]: the statement thread t executes next
    stk,        \* stk[t]: return labels of the calls in progress
    op,         \* op[t]: the top-level operation thread t runs or ran last
    rq,         \* rq[t]: locals of _request
    rs,         \* rs[t]: locals of try_restore_session
    arg,        \* arg[t]: the argument of the set_token call in progress
    rv,         \* rv[t]: the value returned (or exception raised) by the last call
    calls,      \* calls[t]: collaborator calls made by the operation, in order
    ops,        \* operations started so far
    wk,         \* wk[t]: locals of the login worker / show_main_app
    uiq,        \* callbacks scheduled for the UI thread, in order
    mode,       \* the App's current mode
    pre,        \* pre[t]: TokenState, store and faults when t's operation began
    boot,       \* locals of App.on_mount's restore loop, and its attempts
    passed      \* the tokens passed to set_token so far

vars == <<token, header, handle, store, env, issued, pc, stk, op, rq, rs, arg,
          rv, calls, ops, wk, uiq, mode, pre, boot, passed>>

\* The state only the login worker, the UI transitions and the startup
\* loop touch.
uivars == <<wk, uiq, mode, pre, boot, passed>>


\* ----------------------------------------------------------------------
\* Values handed back by calls.  A request ends with a decoded payload
\* ("ok"), a requests.HTTPError carrying the response status ("http"), a
\* JSON decoding error ("decode") or a transport exception ("transport");
\* try_restore_session returns a bool.
\* ----------------------------------------------------------------------
Val(kind, status, val) == [kind |-> kind, status |-> status, val |-> val]
NoRes == Val("none", 0, FALSE)
Bool(b) == Val("bool", 0, b)
Ok == Val("ok", 200, TRUE)
Http(status) == Val("http", status, FALSE)
Decode == Val("decode", 200, FALSE)
Transport == Val("transport", 0, FALSE)

RqNone == [method |-> NoVal, handle |-> NoVal, body |-> NoVal,
           resp |-> NoResp, exc |-> 0, first |-> NoResp, retried |-> NoRes,
           restored |-> <<>>]

\* A credential result: what authenticate() returns, what
\* get_stored_credentials() reads back.
Cred(username, access, refresh) ==
    [kind |-> "dict", username |-> username, access |-> access,
     refresh |-> refresh]
NoCred == [kind |-> "none", username |-> NoVal, access |-> NoVal,
           refresh |-> NoVal]
WkNone == [result |-> NoCred, username |-> NoVal]
RsNone == [username |-> NoVal, refresh |-> NoVal, path |-> NoVal,
           access |-> NoVal, newRefresh |-> NoVal]

\* App.on_mount before its loop: restored = False, start_time = now, no
\* attempt made.  Time is counted in ticks of 100 ms since start_time.
BootNone == [restored |-> FALSE, elapsed |-> 0, attempts |-> 0, tries |-> <<>>]

\* One collaborator call, with what it was given and the TokenState and
\* store it was made in.
Ev(ev, att, verb, hdl, body, tok) ==
    [ev |-> ev, att |-> att, verb |-> verb, handle |-> hdl, body |-> body,
     tok |-> tok, auth |-> header, token |-> token, stored |-> store.access,
     setting |-> \E u \in Threads : pc[u] = "st_header"]

Log(t, e) == calls' = [calls EXCEPT ![t] = Append(@, e)]
Log2(t, e1, e2) == calls' = [calls EXCEPT ![t] = Append(Append(@, e1), e2)]

\* ----------------------------------------------------------------------
\* The environment.  Regularly the backend answers 200 to a request whose
\* bearer token it accepts and 401 to any other, its refresh endpoint
\* accepts the refresh token or not, the store takes every write and the
\* login flow succeeds.  Any call may instead meet a fault (any other
\* response, result or exception), MaxFaults times in a behaviour.
\* ----------------------------------------------------------------------
Accepted(h) == h # NoVal /\ \E a \in env.valid : h = Bearer(a)

Pick(regular, all) ==
    regular \cup (IF env.faults < MaxFaults THEN all ELSE {})

Spend(x, regular) ==
    IF x \in regular THEN env ELSE [env EXCEPT !.faults = @ + 1]

RegularResponses(h) ==
    IF Accepted(h) THEN {Resp(200, TRUE)} ELSE {Resp(401, FALSE)}

Responses(h) == Pick(RegularResponses(h), AllResponses)

\* refresh_tokens(refresh): a token mapping with ("pair") or without
\* ("access") a new refresh token, a value that is no usable mapping
\* ("malformed"), or an exception ("raise").
RegularRefresh ==
    IF env.refreshOk THEN {"pair"} ELSE {"malformed", "raise"}

RefreshOutcomes ==
    Pick(RegularRefresh, {"pair", "access", "malformed", "raise"})

\* save_tokens_full(...): returns (TRUE) or raises (FALSE).
SaveOutcomes == Pick({TRUE}, {TRUE, FALSE})

\* clear_credentials() and its fallbacks: the blob is removed (TRUE) or
\* every attempt raised (FALSE).
ClearOutcomes == Pick({TRUE}, {TRUE, FALSE})

\* authenticate(): returns the credentials and persists them ("ok"),
\* returns nothing ("none"), or raises, having written no blob ("raise")
\* or having written one all the same ("raise_saved").
AuthOutcomes == Pick({"ok"}, {"ok", "none", "raise", "raise_saved"})

\* The backends a behaviour may start with, f faults already spent.
Envs(f) ==
    {[valid |-> v, refreshOk |-> r, faults |-> f] :
        v \in {{}, {OldAccess}}, r \in BOOLEAN}

\* A token the backend mints is one it accepts.
Minted(e, a) == [e EXCEPT !.valid = @ \cup {a}]

\* ----------------------------------------------------------------------
\* Init: the module-level `api = RealAPI(base_url, handle=initial_handle)`
\* (api_interface.py, 677-685): no token, no Authorization header, the
\* handle get_username() returned.
\* ----------------------------------------------------------------------
InitWith(f) ==
    /\ token = NoVal
    /\ header = NoVal
    /\ store \in InitBlobs
    /\ handle = (IF store.username # NoVal THEN store.username ELSE NoVal)
    /\ env \in Envs(f)
    /\ issued = 0
    /\ pc = [t \in Threads |-> "idle"]
    /\ stk = [t \in Threads |-> <<>>]
    /\ op = [t \in Threads |-> NoVal]
    /\ rq = [t \in Threads |-> RqNone]
    /\ rs = [t \in Threads |-> RsNone]
    /\ arg = [t \in Threads |-> NoVal]
    /\ rv = [t \in Threads |-> NoRes]
    /\ calls = [t \in Threads |-> <<>>]
    /\ ops = 0
    /\ wk = [t \in Threads |-> WkNone]
    /\ uiq = <<>>
    /\ mode = NoVal
    /\ boot = BootNone
    /\ passed = {}
    /\ pre = [t \in Threads |->
                [token |-> NoVal, header |-> NoVal, handle |-> handle,
                 store |-> store, valid |-> env.valid, faults |-> f,
                 prevOp |-> NoVal, prevRv |-> NoRes, prevClean |-> TRUE,
                 prevStore |-> store]]

\* Operations in sequence are explored against collaborators that deviate
\* at most MaxFaults - 1 times: one deviation counts as spent.
Init == InitWith(1)

\* TokenState, the store and the faults spent, as an operation of thread t
\* finds them, and the operation t ended just before: its result, whether
\* it met no fault, and the store it found.
Snapshot(t) ==
    [token |-> token, header |-> header, handle |-> handle, store |-> store,
     valid |-> env.valid, faults |-> env.faults,
     prevOp |-> op[t], prevRv |-> rv[t],
     prevClean |-> (env.faults = pre[t].faults),
     prevStore |-> pre[t].store]


\* ----------------------------------------------------------------------
\* Calls and returns.
\* ----------------------------------------------------------------------
Goto(t, label) == pc' = [pc EXCEPT ![t] = label]

Call(t, callee, ret) ==
    /\ pc' = [pc EXCEPT ![t] = callee]
    /\ stk' = [stk EXCEPT ![t] = <<ret>> \o @]

\* Hand v to the caller; with no caller left the operation is over.
Return(t, v) ==
    /\ rv' = [rv EXCEPT ![t] = v]
    /\ IF stk[t] = <<>>
       THEN pc' = [pc EXCEPT ![t] = "idle"] /\ stk' = stk
       ELSE pc' = [pc EXCEPT ![t] = Head(stk[t])] /\
            stk' = [stk EXCEPT ![t] = Tail(@)]

\* ----------------------------------------------------------------------
\* RealAPI.set_token (api_interface.py, 176-186): two statements.
\* ----------------------------------------------------------------------
CallSetToken(t, tok, ret) ==
    /\ Call(t, "st_token", ret)
    /\ arg' = [arg EXCEPT ![t] = tok]

\* set_token(token) is entered with its argument; self.token = token binds
\* the attribute to the str object passed, in one store.
StoredTorn(old, new) == IF old = NoVal THEN new ELSE old \o new
Stored(old, new) == new

SetTokenAssign(t) ==
    /\ pc[t] = "st_token"
    /\ UNCHANGED <<wk, uiq, mode, pre, boot>>
    /\ passed' = passed \cup {arg[t]}
    /\ token' = Stored(token, arg[t])
    /\ Goto(t, "st_header")
    /\ UNCHANGED <<header, handle, store, env, issued, stk, op, rq, rs, arg,
                   rv, calls, ops>>

\* self.session.headers.update({"Authorization": f"Bearer {self.token}"})
SetTokenHeader(t) ==
    /\ pc[t] = "st_header"
    /\ UNCHANGED uivars
    /\ header' = Bearer(token)
    /\ arg' = [arg EXCEPT ![t] = NoVal]
    /\ pc' = [pc EXCEPT ![t] = Head(stk[t])]
    /\ stk' = [stk EXCEPT ![t] = Tail(@)]
    /\ UNCHANGED <<token, handle, store, env, issued, op, rq, rs, rv, calls,
                   ops>>


\* ----------------------------------------------------------------------
\* RealAPI.try_restore_session (api_interface.py, 541-668).
\* ----------------------------------------------------------------------
\* resp.ok (594)
ProbeOkBelow500(r) == r.status < 500
ProbeOkNever(r) == FALSE
ProbeOk(r) == r.status < 400

\* resp.status_code == 401 (596)
ProbeRejectedBy403(r) == r.status = 403
ProbeRejectedByAnyFailure(r) == r.status >= 400
ProbeRejected(r) == r.status = 401

\* new_tokens and isinstance(new_tokens, dict) and
\* new_tokens.get('access_token') (602, 624, 648)
RefreshUsableAlways(o) == TRUE
RefreshUsableWhenRaised(o) == o \in {"pair", "access", "raise"}
RefreshUsableUnlessRaised(o) == o # "raise"
RefreshUsable(o) == o \in {"pair", "access"}

\* After set_token(new_tokens['access_token']) comes save_tokens_full
\* (603-611, 625-632, 649-656).
AfterInstallReturns == "rs_bind2"
AfterInstallRefreshes == "rs_refresh"
AfterInstall == "rs_save"

\* What save_tokens_full(new_tokens, username) leaves in the store.
SavedBlob(username, access, refresh) ==
    Blob("dict", TRUE, username, access, refresh, NoVal)

\* The full-pair path persists before it returns (607-612); the other two
\* paths bind the handle after persisting (629-635, 653-659).
BindsAfterSave(path) == path # "rejected"

RestoreReturnsTrue(t, b) ==
    /\ Return(t, Bool(TRUE))
    /\ rs' = [rs EXCEPT ![t] = RsNone]

RestoreReturnsFalse(t, b) ==
    /\ Return(t, Bool(FALSE))
    /\ rs' = [rs EXCEPT ![t] = RsNone]

RestoreReturn(t, b) ==
    /\ Return(t, Bool(b))
    /\ rs' = [rs EXCEPT ![t] = RsNone]

\* found = _load() and the dispatch on the blob's shape (555-588, 640-643)
RestoreLoad(t) ==
    /\ pc[t] = "rs_load"
    /\ UNCHANGED uivars
    /\ Log(t, Ev("restore", NoVal, NoVal, NoVal, NoVal, NoVal))
    /\ UNCHANGED <<token, header, handle, store, env, issued, op, rq, ops>>
    /\ LET found == store IN
       IF found.kind # "dict"
       THEN RestoreReturn(t, FALSE) /\ UNCHANGED arg
       ELSE IF found.wrapped /\ found.access # NoVal
       THEN /\ rs' = [rs EXCEPT ![t] =
                        [username |-> found.username,
                         refresh |-> IF found.refresh # NoVal
                                     THEN found.refresh ELSE found.topRefresh,
                         path |-> "full", access |-> NoVal,
                         newRefresh |-> NoVal]]
            /\ CallSetToken(t, found.access, "rs_bind")
            /\ UNCHANGED rv
       ELSE IF found.topRefresh # NoVal
       THEN /\ rs' = [rs EXCEPT ![t] =
                        [username |-> found.username,
                         refresh |-> found.topRefresh,
                         path |-> "only", access |-> NoVal,
                         newRefresh |-> NoVal]]
            /\ Goto(t, "rs_refresh")
            /\ UNCHANGED <<stk, arg, rv>>
       ELSE RestoreReturn(t, FALSE) /\ UNCHANGED arg

\* if username: self.handle = username (587-588)
RestoreBind(t) ==
    /\ pc[t] = "rs_bind"
    /\ UNCHANGED uivars
    /\ handle' = (IF rs[t].username # NoVal THEN rs[t].username ELSE handle)
    /\ Goto(t, "rs_probe")
    /\ UNCHANGED <<token, header, store, env, issued, stk, op, rq, rs, arg, rv,
                   calls, ops>>

\* self.session.get(f"{base_url}/me", params={"handle": self.handle}) and
\* what follows from its result (591-621)
RestoreProbe(t) ==
    /\ pc[t] = "rs_probe"
    /\ UNCHANGED uivars
    /\ UNCHANGED <<token, header, handle, store, issued, op, rq, arg, ops>>
    /\ \E r \in Responses(header) :
         /\ Log(t, Ev("probe", NoVal, "GET", handle, Status(r), NoVal))
         /\ env' = Spend(r, RegularResponses(header))
         /\ IF r.kind = "neterr"
            THEN IF rs[t].refresh # NoVal
                 THEN /\ rs' = [rs EXCEPT ![t].path = "unreachable"]
                      /\ Goto(t, "rs_refresh")
                      /\ UNCHANGED <<stk, rv>>
                 ELSE RestoreReturn(t, FALSE)
            ELSE IF ProbeOk(r)
            THEN RestoreReturn(t, TRUE)
            ELSE IF ProbeRejected(r) /\ rs[t].refresh # NoVal
            THEN /\ rs' = [rs EXCEPT ![t].path = "rejected"]
                 /\ Goto(t, "rs_refresh")
                 /\ UNCHANGED <<stk, rv>>
            ELSE RestoreReturn(t, FALSE)

\* new_tokens = refresh_tokens(refresh) (600-606, 623-628, 646-652)
RestoreRefresh(t) ==
    /\ pc[t] = "rs_refresh"
    /\ UNCHANGED uivars
    /\ UNCHANGED <<token, header, handle, store, op, rq, ops>>
    /\ \E o \in RefreshOutcomes :
         IF RefreshUsable(o)
         THEN /\ issued' = issued + 1
              /\ env' = Minted(Spend(o, RegularRefresh), MintAccess(issued + 1))
              /\ rs' = [rs EXCEPT ![t].access = MintAccess(issued + 1),
                                  ![t].newRefresh =
                                      IF o = "pair"
                                      THEN MintRefresh(issued + 1) ELSE NoVal]
              /\ Log2(t, Ev("refresh", NoVal, NoVal, NoVal, o, rs[t].refresh),
                         Ev("refreshed", NoVal, NoVal, NoVal, NoVal,
                            MintAccess(issued + 1)))
              /\ CallSetToken(t, MintAccess(issued + 1), AfterInstall)
              /\ UNCHANGED rv
         ELSE /\ Log(t, Ev("refresh", NoVal, NoVal, NoVal, o, rs[t].refresh))
              /\ RestoreReturn(t, FALSE)
              /\ env' = Spend(o, RegularRefresh)
              /\ UNCHANGED <<issued, arg>>

\* save_tokens_full(new_tokens, username), whose failure is logged and
\* ignored (607-611, 629-632, 653-656)
RestoreSave(t) ==
    /\ pc[t] = "rs_save"
    /\ UNCHANGED uivars
    /\ \E ok \in SaveOutcomes :
         /\ Log(t, Ev("save", NoVal, NoVal, NoVal,
                      IF ok THEN "written" ELSE "raised", rs[t].access))
         /\ env' = Spend(ok, {TRUE})
         /\ store' = IF ok
                     THEN SavedBlob(rs[t].username, rs[t].access,
                                    rs[t].newRefresh)
                     ELSE store
    /\ UNCHANGED <<token, header, handle, issued, op, rq, arg, ops>>
    /\ IF BindsAfterSave(rs[t].path)
       THEN Goto(t, "rs_bind2") /\ UNCHANGED <<stk, rs, rv>>
       ELSE RestoreReturn(t, TRUE)

\* if username: self.handle = username; return True (633-635, 657-659)
RestoreBindAgain(t) ==
    /\ pc[t] = "rs_bind2"
    /\ UNCHANGED uivars
    /\ handle' = (IF rs[t].username # NoVal THEN rs[t].username ELSE handle)
    /\ RestoreReturn(t, TRUE)
    /\ UNCHANGED <<token, header, store, env, issued, op, rq, arg, calls, ops>>


\* ----------------------------------------------------------------------
\* RealAPI._request (api_interface.py, 197-271), called with retry=True.
\* ----------------------------------------------------------------------
\* resp.status_code in (400, 401, 403) (222) / status in (400, 401, 403) (255)
AuthFailureOrNotFound(status) == status \in {400, 401, 403, 404}
AuthFailure(status) == status \in {400, 401, 403}

\* The session call of the first attempt (210-219) and of the call with
\* retry=False (265): get, post, patch, or request(m) for another verb.
SessionVerb(m) == m

\* The session call of the retry made next to the restore (235-238):
\* get for GET, post for everything else.
InlineRetryVerb(m) == IF m = "GET" THEN "GET" ELSE "POST"

\* session.get passes no json; the other calls pass json=json_payload.
SentBody(verb, body) == IF verb = "GET" THEN NoVal ELSE body

\* resp.raise_for_status(); return resp.json() (244-245)
Outcome(r) ==
    IF r.status >= 400 THEN Http(r.status)
    ELSE IF r.json THEN Ok ELSE Decode

\* The retries pass the params dict of the first attempt, in which
\* setdefault has put the handle (205, 236-238, 265).
RetryHandleCurrent(t) == handle
RetryHandle(t) == rq[t].handle

SendEv(t, att, verb) ==
    Ev("send", att, verb,
       IF att = "first" THEN rq[t].handle ELSE RetryHandle(t),
       SentBody(verb, rq[t].body), NoVal)

\* params.setdefault("handle", self.handle) (204-206)
HandleParam(ph) == IF ph = NoVal THEN handle ELSE ph

NewRequest(m, ph, body) ==
    [method |-> m, handle |-> HandleParam(ph),
     body |-> body, resp |-> NoResp, exc |-> 0, first |-> NoResp,
     retried |-> NoRes, restored |-> <<>>]

\* The first attempt (209-228).  A transport exception is no HTTPError and
\* leaves _request; an auth failure starts try_restore_session; any other
\* response goes to raise_for_status.
RequestSend(t) ==
    /\ pc[t] = "rq_send1"
    /\ UNCHANGED uivars
    /\ Log(t, SendEv(t, "first", SessionVerb(rq[t].method)))
    /\ UNCHANGED <<token, header, handle, store, issued, op, rs, arg, ops>>
    /\ \E r \in Responses(header) :
         /\ env' = Spend(r, RegularResponses(header))
         /\ IF r.kind = "neterr"
            THEN /\ rq' = [rq EXCEPT ![t].first = r]
                 /\ Return(t, Transport)
            ELSE IF AuthFailure(r.status)
            THEN /\ rq' = [rq EXCEPT ![t].first = r, ![t].resp = r]
                 /\ Call(t, "rs_load", "rq_restored")
                 /\ UNCHANGED rv
            ELSE /\ rq' = [rq EXCEPT ![t].first = r, ![t].resp = r]
                 /\ Return(t, Outcome(r))

\* restored = self.try_restore_session() has returned (229-245).  When it
\* is False the response is unchanged, raise_for_status raises the
\* HTTPError of the auth failure, and its handler (247-263) calls
\* try_restore_session again.
RequestRestored(t) ==
    /\ pc[t] = "rq_restored"
    /\ UNCHANGED uivars
    /\ UNCHANGED <<token, header, handle, store, env, issued, op, rs, arg, rv,
                   calls, ops>>
    /\ IF rv[t].val
       THEN /\ rq' = [rq EXCEPT ![t].restored = Append(@, TRUE)]
            /\ Goto(t, "rq_send2")
            /\ UNCHANGED stk
       ELSE /\ rq' = [rq EXCEPT ![t].exc = rq[t].resp.status,
                                ![t].restored = Append(@, FALSE)]
            /\ Call(t, "rs_load", "rq_handled")

\* The retry next to the restore (233-245).  An exception of the session
\* call is swallowed (241) and leaves resp as it was.
RequestInlineRetry(t) ==
    /\ pc[t] = "rq_send2"
    /\ UNCHANGED uivars
    /\ Log(t, SendEv(t, "inline", InlineRetryVerb(rq[t].method)))
    /\ UNCHANGED <<token, header, handle, store, issued, op, rs, arg, ops>>
    /\ \E r \in Responses(header) :
         LET resp == IF r.kind = "neterr" THEN rq[t].resp ELSE r
             own == IF r.kind = "neterr" THEN Transport ELSE Outcome(r) IN
         /\ env' = Spend(r, RegularResponses(header))
         /\ IF resp.status >= 400 /\ AuthFailure(resp.status)
            THEN /\ rq' = [rq EXCEPT ![t].resp = resp,
                                     ![t].exc = resp.status,
                                     ![t].retried = own]
                 /\ Call(t, "rs_load", "rq_handled")
                 /\ UNCHANGED rv
            ELSE /\ rq' = [rq EXCEPT ![t].resp = resp, ![t].retried = own]
                 /\ Return(t, Outcome(resp))

\* The HTTPError handler after its try_restore_session (263-271).
RequestHandled(t) ==
    /\ pc[t] = "rq_handled"
    /\ UNCHANGED uivars
    /\ UNCHANGED <<token, header, handle, store, env, issued, op, rs, arg,
                   calls, ops>>
    /\ rq' = [rq EXCEPT ![t].restored = Append(@, rv[t].val)]
    /\ IF rv[t].val
       THEN Goto(t, "rq_send3") /\ UNCHANGED <<stk, rv>>
       ELSE Return(t, Http(rq[t].exc))

\* return self._request(..., retry=False) (265).  The inner call returns
\* the payload or raises; whatever it raises is swallowed (267) and the
\* handler re-raises the HTTPError it was handling (271).
RequestRetryCall(t) ==
    /\ pc[t] = "rq_send3"
    /\ UNCHANGED uivars
    /\ Log(t, SendEv(t, "inner", SessionVerb(rq[t].method)))
    /\ UNCHANGED <<token, header, handle, store, issued, op, rs, arg, ops>>
    /\ \E r \in Responses(header) :
         /\ env' = Spend(r, RegularResponses(header))
         /\ rq' = [rq EXCEPT ![t].retried =
                                 IF r.kind = "neterr" THEN Transport
                                 ELSE Outcome(r)]
         /\ IF r.kind # "neterr" /\ Outcome(r) = Ok
            THEN Return(t, Ok)
            ELSE Return(t, Http(rq[t].exc))


\* ----------------------------------------------------------------------
\* Top-level operations.
\* ----------------------------------------------------------------------
Workers == Threads \ {"ui"}

\* The account the interactive login signs in.
LoginUser(t) == IF t = "worker" THEN "bob" ELSE "dan"

\* What _get, _post, _patch and a caller of _request pass: the verb, the
\* caller's own handle parameter (get_user_posts, 350-353) and the JSON
\* payload.
RequestInputs ==
    { <<"GET", NoVal, NoVal>>, <<"GET", "carol", NoVal>>,
      <<"POST", NoVal, "json">>, <<"PATCH", NoVal, "json">>,
      <<"DELETE", NoVal, NoVal>> }

\* The locals and the record of calls of a finished operation are dead:
\* they are dropped when the next operation starts.
Idle(u) == pc[u] \in {"idle", "exited"}
Fresh(f, none) == [u \in Threads |-> IF Idle(u) THEN none ELSE f[u]]

Begin(t, name) ==
    /\ pc[t] = "idle"
    /\ ops < MaxOps
    /\ ops' = ops + 1
    /\ op' = [Fresh(op, NoVal) EXCEPT ![t] = name]
    /\ calls' = Fresh(calls, <<>>)
    /\ rv' = Fresh(rv, NoRes)
    /\ rs' = Fresh(rs, RsNone)
    /\ wk' = Fresh(wk, WkNone)
    /\ pre' = [u \in Threads |-> IF u = t \/ Idle(u) THEN Snapshot(t)
                                ELSE pre[u]]

\* api._get / api._post / api._patch / api._request from the UI
StartRequest(t, in) ==
    /\ Begin(t, "request")
    /\ rq' = [Fresh(rq, RqNone) EXCEPT ![t] =
                 NewRequest(in[1], in[2], in[3])]
    /\ Goto(t, "rq_send1")
    /\ UNCHANGED <<token, header, handle, store, env, issued, stk, arg, uiq,
                   mode, boot, passed>>

\* api.get_current_user() inside another operation: _get("/me")
CallRequest(t, ret) ==
    /\ rq' = [rq EXCEPT ![t] = NewRequest("GET", NoVal, NoVal)]
    /\ Call(t, "rq_send1", ret)

\* api.try_restore_session() called on its own (main.py, 6364)
StartRestore(t) ==
    /\ Begin(t, "restore")
    /\ rq' = Fresh(rq, RqNone)
    /\ Goto(t, "rs_load")
    /\ UNCHANGED <<token, header, handle, store, env, issued, stk, arg, uiq,
                   mode, boot, passed>>

\* ----------------------------------------------------------------------
\* App.show_auth_screen (main.py, 6095-6108)
\* ----------------------------------------------------------------------
StartShowAuthScreen(t) ==
    /\ Begin(t, "show_auth_screen")
    /\ rq' = Fresh(rq, RqNone)
    /\ Goto(t, "sa_pop")
    /\ UNCHANGED <<token, header, handle, store, env, issued, stk, arg, uiq,
                   mode, boot, passed>>

\* api.session.headers.pop("Authorization", None)
ShowAuthPop(t) ==
    /\ pc[t] = "sa_pop"
    /\ header' = NoVal
    /\ Goto(t, "sa_handle")
    /\ UNCHANGED <<token, handle, store, env, issued, stk, op, rq, rs, arg, rv,
                   calls, ops, uivars>>

\* api.handle = "yourname"; self.switch_mode("auth")
ShowAuthHandle(t) ==
    /\ pc[t] = "sa_handle"
    /\ handle' = Sentinel
    /\ mode' = "auth"
    /\ Goto(t, "idle")
    /\ UNCHANGED <<token, header, store, env, issued, stk, op, rq, rs, arg, rv,
                   calls, ops, wk, uiq, pre, boot, passed>>

\* ----------------------------------------------------------------------
\* The settings screen's sign-out button (main.py, 4573-4640)
\* ----------------------------------------------------------------------
StartSignOut(t) ==
    /\ Begin(t, "sign_out")
    /\ rq' = Fresh(rq, RqNone)
    /\ Goto(t, "so_clear")
    /\ UNCHANGED <<token, header, handle, store, env, issued, stk, arg, uiq,
                   mode, boot, passed>>

\* clear_credentials(), with its fallbacks, all of them best effort
SignOutClear(t) ==
    /\ pc[t] = "so_clear"
    /\ \E ok \in ClearOutcomes :
         /\ env' = Spend(ok, {TRUE})
         /\ store' = IF ok THEN AbsentBlob ELSE store
    /\ Goto(t, "so_pop")
    /\ UNCHANGED <<token, header, handle, issued, stk, op, rq, rs, arg, rv,
                   calls, ops, uivars>>

\* api.session.headers.pop("Authorization", None)
SignOutPop(t) ==
    /\ pc[t] = "so_pop"
    /\ header' = NoVal
    /\ Goto(t, "so_handle")
    /\ UNCHANGED <<token, handle, store, env, issued, stk, op, rq, rs, arg, rv,
                   calls, ops, uivars>>

\* api.handle = "yourname"; ...; self.app.exit()
SignOutHandle(t) ==
    /\ pc[t] = "so_handle"
    /\ handle' = Sentinel
    /\ Goto(t, "exited")
    /\ UNCHANGED <<token, header, store, env, issued, stk, op, rq, rs, arg, rv,
                   calls, ops, uivars>>


\* ----------------------------------------------------------------------
\* AuthScreen._start_auth_flow.worker (main.py, 493-663)
\* ----------------------------------------------------------------------
\* get_stored_credentials(): the persisted blob as a credential result
CredentialsIn(b) ==
    IF b.kind # "dict" THEN NoCred
    ELSE IF b.wrapped
    THEN Cred(b.username, b.access, b.refresh)
    ELSE Cred(b.username, NoVal, NoVal)

StoredCredentials == CredentialsIn(store)

\* if not result: raise AuthError(...), and the re-raise of an
\* authenticate() error that found no fallback (main.py, 509-517)
NoResultNever(result) == FALSE
NoResult(result) == result.kind # "dict"

\* if creds and isinstance(creds, dict) (main.py, 507)
RecoveredNever(creds) == FALSE
Recovered(creds) == creds.kind = "dict"

\* tokens and isinstance(tokens, dict) and "access_token" in tokens
\* (main.py, 529 and 6031)
HasAccessTokenNever(cred) == FALSE
HasAccessToken(cred) == cred.kind = "dict" /\ cred.access # NoVal

StartLogin(t) ==
    /\ Begin(t, "login")
    /\ rq' = Fresh(rq, RqNone)
    /\ Goto(t, "wk_auth")
    /\ UNCHANGED <<token, header, handle, store, env, issued, stk, arg, uiq,
                   mode, boot, passed>>

\* result = authenticate(), the fallback to get_stored_credentials() when
\* it raises, and the failure notifications (496-517, 622-663)
WorkerAuthenticate(t) ==
    /\ pc[t] = "wk_auth"
    /\ UNCHANGED <<token, header, handle, stk, op, rq, rs, arg, rv, ops,
                   mode, pre, boot, passed>>
    /\ \E o \in AuthOutcomes :
         LET access == MintAccess(issued + 1)
             refresh == MintRefresh(issued + 1)
             written == SavedBlob(LoginUser(t), access, refresh)
             after == IF o \in {"ok", "raise_saved"} THEN written ELSE store
             fallback == CredentialsIn(after)
             result == IF o = "ok" THEN Cred(LoginUser(t), access, refresh)
                       ELSE IF o = "none" THEN NoCred
                       ELSE IF Recovered(fallback) THEN fallback
                       ELSE NoCred
             raised == o \in {"raise", "raise_saved"}
             called == Ev("authenticate", NoVal, NoVal, NoVal,
                          IF raised THEN "raised" ELSE o, NoVal)
             looked == Ev("get_stored_credentials", NoVal, NoVal, NoVal,
                          IF fallback.kind = "dict" THEN "found" ELSE "none",
                          fallback.access)
             failed == Ev("notify", NoVal, NoVal, NoVal, "auth_failed", NoVal)
             seen == IF raised THEN <<called, looked>> ELSE <<called>>
         IN
         /\ calls' = [calls EXCEPT ![t] =
                         @ \o seen \o (IF ~NoResult(result) THEN <<>>
                                       ELSE <<failed>>)]
         /\ store' = after
         /\ issued' = IF o \in {"ok", "raise_saved"} THEN issued + 1 ELSE issued
         /\ env' = IF o \in {"ok", "raise_saved"}
                   THEN Minted(Spend(o, {"ok"}), access)
                   ELSE Spend(o, {"ok"})
         /\ IF ~NoResult(result)
            THEN /\ wk' = [wk EXCEPT ![t] = [result |-> result,
                                             username |-> NoVal]]
                 /\ Goto(t, "wk_install")
                 /\ UNCHANGED uiq
            ELSE /\ uiq' = Append(uiq, [fn |-> "auth_failed", cred |-> NoCred])
                 /\ Goto(t, "idle")
                 /\ UNCHANGED wk

\* api.set_token(tokens["access_token"]) when the result has one (523-531)
WorkerInstall(t) ==
    /\ pc[t] = "wk_install"
    /\ wk' = [wk EXCEPT ![t].username = wk[t].result.username]
    /\ IF HasAccessToken(wk[t].result)
       THEN /\ CallSetToken(t, wk[t].result.access, "wk_handle")
            /\ Log(t, Ev("install", NoVal, NoVal, NoVal, NoVal,
                         wk[t].result.access))
       ELSE Goto(t, "wk_handle") /\ UNCHANGED <<stk, arg, calls>>
    /\ UNCHANGED <<token, header, handle, store, env, issued, op, rq, rs, rv,
                   ops, uiq, mode, pre, boot, passed>>

\* if username: api.handle = username (533-535)
WorkerHandle(t) ==
    /\ pc[t] = "wk_handle"
    /\ IF wk[t].username # NoVal
       THEN /\ handle' = wk[t].username
            /\ Log(t, Ev("bind", NoVal, NoVal, wk[t].username, NoVal, NoVal))
            /\ Goto(t, "wk_me")
       ELSE handle' = handle /\ Goto(t, "wk_notify") /\ UNCHANGED calls
    /\ UNCHANGED <<token, header, store, env, issued, stk, op, rq, rs, arg, rv,
                   ops, uivars>>

\* user_profile = api.get_current_user(), any exception ignored (538-541)
WorkerGetUser(t) ==
    /\ pc[t] = "wk_me"
    /\ CallRequest(t, "wk_notify")
    /\ UNCHANGED <<token, header, handle, store, env, issued, op, rs, arg, rv,
                   calls, ops, uivars>>

\* The success notifications, ending with show_main_app(credentials=result)
\* scheduled on the UI thread (567-620)
WorkerNotifySilent(t) ==
    /\ pc[t] = "wk_notify"
    /\ Goto(t, "idle")
    /\ UNCHANGED <<token, header, handle, store, env, issued, stk, op, rq, rs,
                   arg, rv, calls, ops, uivars>>

WorkerNotify(t) ==
    /\ pc[t] = "wk_notify"
    /\ uiq' = Append(uiq, [fn |-> "show_main_app", cred |-> wk[t].result])
    /\ Log(t, Ev("notify", NoVal, NoVal, NoVal, "show_main_app",
                 wk[t].result.access))
    /\ Goto(t, "idle")
    /\ UNCHANGED <<token, header, handle, store, env, issued, stk, op, rq, rs,
                   arg, rv, ops, wk, mode, pre, boot, passed>>

\* ----------------------------------------------------------------------
\* App.show_main_app (main.py, 6011-6093)
\* ----------------------------------------------------------------------
\* The UI thread runs the next scheduled callback.
UiRun(t) ==
    /\ t = "ui"
    /\ pc[t] = "idle"
    /\ uiq # <<>>
    /\ uiq' = Tail(uiq)
    /\ IF Head(uiq).fn = "show_main_app"
       THEN /\ op' = [op EXCEPT ![t] = "show_main_app"]
            /\ wk' = [wk EXCEPT ![t] = [result |-> Head(uiq).cred,
                                        username |-> NoVal]]
            /\ calls' = [calls EXCEPT ![t] = <<>>]
            /\ rq' = [rq EXCEPT ![t] = RqNone]
            /\ rv' = [rv EXCEPT ![t] = NoRes]
            /\ Goto(t, "sm_token")
       ELSE UNCHANGED <<op, wk, calls, rq, rv, pc>>
    /\ pre' = [pre EXCEPT ![t] = Snapshot(t)]
    /\ UNCHANGED <<token, header, handle, store, env, issued, stk, rs, arg,
                   ops, mode, boot, passed>>

\* The credentials passed in, or else get_stored_credentials(); the token
\* is set when absent (passed in) or always (read back) (6023-6049)
ShowMainToken(t) ==
    /\ pc[t] = "sm_token"
    /\ LET given == wk[t].result.kind = "dict"
           cred == IF given THEN wk[t].result ELSE StoredCredentials
           username == IF cred.kind = "dict" /\ cred.username # NoVal
                       THEN cred.username ELSE Sentinel
       IN
       /\ wk' = [wk EXCEPT ![t].username = username]
       /\ IF HasAccessToken(cred) /\ (~given \/ token = NoVal)
          THEN CallSetToken(t, cred.access, "sm_handle")
          ELSE Goto(t, "sm_handle") /\ UNCHANGED <<stk, arg>>
    /\ UNCHANGED <<token, header, handle, store, env, issued, op, rq, rs, rv,
                   calls, ops, uiq, mode, pre, boot, passed>>

\* if not api.handle or api.handle == "yourname": api.handle = username
ShowMainHandle(t) ==
    /\ pc[t] = "sm_handle"
    /\ handle' = (IF handle \in {NoVal, Sentinel} THEN wk[t].username
                  ELSE handle)
    /\ Goto(t, "sm_me")
    /\ UNCHANGED <<token, header, store, env, issued, stk, op, rq, rs, arg, rv,
                   calls, ops, uivars>>

\* user_profile = api.get_current_user(), any exception ignored (6056-6059)
ShowMainGetUser(t) ==
    /\ pc[t] = "sm_me"
    /\ CallRequest(t, "sm_switch")
    /\ UNCHANGED <<token, header, handle, store, env, issued, op, rs, arg, rv,
                   calls, ops, uivars>>

\* self.switch_mode("main")
ShowMainSwitch(t) ==
    /\ pc[t] = "sm_switch"
    /\ mode' = "main"
    /\ Goto(t, "idle")
    /\ UNCHANGED <<token, header, handle, store, env, issued, stk, op, rq, rs,
                   arg, rv, calls, ops, wk, uiq, pre, boot, passed>>

\* ----------------------------------------------------------------------
\* AuthScreen.on_mount (main.py, 327-387): a silent restore, then
\* show_main_app() with no credentials when it succeeded.
\* ----------------------------------------------------------------------
StartAuthMount(t) ==
    /\ Begin(t, "auth_mount")
    /\ rq' = Fresh(rq, RqNone)
    /\ Call(t, "rs_load", "am_restored")
    /\ UNCHANGED <<token, header, handle, store, env, issued, arg, uiq, mode,
                   boot, passed>>

AuthMountRestored(t) ==
    /\ pc[t] = "am_restored"
    /\ IF rv[t].val THEN Goto(t, "sm_token") ELSE Goto(t, "idle")
    /\ UNCHANGED <<token, header, handle, store, env, issued, stk, op, rq, rs,
                   arg, rv, calls, ops, uivars>>

\* ----------------------------------------------------------------------
\* App.on_mount (main.py, 6334-6409): the startup restore loop.
\*   allow_restore_time = 2.0; start_time = time.time()
\*   while time.time() - start_time < allow_restore_time:
\*       restored = api.try_restore_session()   (an exception leaves it)
\*       if restored: break
\*       time.sleep(0.1)
\* ----------------------------------------------------------------------
\* while time.time() - start_time < allow_restore_time (6362)
InBudgetTwice(elapsed) == elapsed < Budget + Budget
InBudget(elapsed) == elapsed < Budget

\* if restored: break (6370-6371)
BreaksAlways(restored) == TRUE
Breaks(restored) == restored

\* The time one call of try_restore_session may take, in ticks: none to
\* speak of, or that of a slow backend.
AttemptTicks == {0, SlowTicks}

\* on_mount is the first thing the App runs.
StartStartup(t) ==
    /\ ops = 0
    /\ Begin(t, "startup")
    /\ rq' = Fresh(rq, RqNone)
    /\ Goto(t, "bt_while")
    /\ UNCHANGED <<token, header, handle, store, env, issued, stk, arg, uiq,
                   mode, boot, passed>>

\* The loop condition, and the call of try_restore_session when it holds.
\* calls[t] is the record of the attempt that begins.
BootWhile(t) ==
    /\ pc[t] = "bt_while"
    /\ IF InBudget(boot.elapsed)
       THEN /\ boot' = [boot EXCEPT !.attempts = @ + 1]
            /\ calls' = [calls EXCEPT ![t] = <<>>]
            /\ rs' = [rs EXCEPT ![t] = RsNone]
            /\ Call(t, "rs_load", "bt_restored")
       ELSE /\ Goto(t, "bt_done")
            /\ UNCHANGED <<boot, calls, rs, stk>>
    /\ UNCHANGED <<token, header, handle, store, env, issued, op, rq, arg, rv,
                   ops, wk, uiq, mode, pre, passed>>

\* restored = <the result>; if restored: break (6364-6371).  The attempt
\* is recorded with what it met: its result, whether it found no blob, and
\* whether the backend turned its refresh token down.
BootRestored(t) ==
    /\ pc[t] = "bt_restored"
    /\ \E d \in AttemptTicks :
         boot' = [boot EXCEPT
                    !.restored = rv[t].val,
                    !.elapsed = @ + d,
                    !.tries = Append(@,
                        [ok |-> rv[t].val,
                         absent |-> store.kind = "absent",
                         rejected |-> /\ \E i \in DOMAIN calls[t] :
                                            calls[t][i].ev = "refresh"
                                      /\ ~env.refreshOk
                                      /\ ~rv[t].val])]
    /\ IF Breaks(rv[t].val) THEN Goto(t, "bt_done") ELSE Goto(t, "bt_sleep")
    /\ UNCHANGED <<token, header, handle, store, env, issued, stk, op, rq, rs,
                   arg, rv, calls, ops, wk, uiq, mode, pre, passed>>

\* time.sleep(0.1) (6373-6376)
BootSleep(t) ==
    /\ pc[t] = "bt_sleep"
    /\ boot' = [boot EXCEPT !.elapsed = @ + Backoff]
    /\ Goto(t, "bt_while")
    /\ UNCHANGED <<token, header, handle, store, env, issued, stk, op, rq, rs,
                   arg, rv, calls, ops, wk, uiq, mode, pre, passed>>

\* get_username(): the persisted username
StoredUsername == store.username

\* if restored: ... self.switch_mode("main"); return
\* self.switch_mode("auth") (6378-6400)
ModeAfterAlwaysMain(restored) == "main"
ModeAfter(restored) == IF restored THEN "main" ELSE "auth"

\* After the loop (6378-6400): the main mode with the persisted handle
\* when restored, the auth screen otherwise.
BootDone(t) ==
    /\ pc[t] = "bt_done"
    /\ handle' = (IF boot.restored /\ StoredUsername # NoVal
                  THEN StoredUsername ELSE handle)
    /\ mode' = ModeAfter(boot.restored)
    /\ Goto(t, "idle")
    /\ UNCHANGED <<token, header, store, env, issued, stk, op, rq, rs, arg, rv,
                   calls, ops, wk, uiq, pre, boot, passed>>

BootStep(t) == BootWhile(t) \/ BootRestored(t) \/ BootSleep(t) \/ BootDone(t)

\* ----------------------------------------------------------------------
\* The specifications.
\* ----------------------------------------------------------------------
\* One statement of set_token, try_restore_session or _request.
ApiStep(t) ==
    \/ SetTokenAssign(t) \/ SetTokenHeader(t)
    \/ RestoreLoad(t) \/ RestoreBind(t) \/ RestoreProbe(t)
    \/ RestoreRefresh(t) \/ RestoreSave(t) \/ RestoreBindAgain(t)
    \/ RequestSend(t) \/ RequestRestored(t) \/ RequestInlineRetry(t)
    \/ RequestHandled(t) \/ RequestRetryCall(t)

\* One statement of the login worker, show_main_app or AuthScreen.on_mount.
LoginStep(t) ==
    \/ WorkerAuthenticate(t) \/ WorkerInstall(t) \/ WorkerHandle(t)
    \/ WorkerGetUser(t) \/ WorkerNotify(t)
    \/ ShowMainToken(t) \/ ShowMainHandle(t) \/ ShowMainGetUser(t)
    \/ ShowMainSwitch(t) \/ AuthMountRestored(t)

\* One statement of show_auth_screen or of the sign-out handler.
ScreenStep(t) ==
    \/ ShowAuthPop(t) \/ ShowAuthHandle(t)
    \/ SignOutClear(t) \/ SignOutPop(t) \/ SignOutHandle(t)

\* One statement of the operation thread t is in.
Step(t) == ApiStep(t) \/ LoginStep(t) \/ ScreenStep(t)

\* The UI thread starts an operation; a worker thread starts a login.
Start ==
    \/ \E in \in RequestInputs : StartRequest("ui", in)
    \/ StartRestore("ui")
    \/ StartAuthMount("ui")
    \/ StartShowAuthScreen("ui")
    \/ StartSignOut("ui")
    \/ StartLogin("worker")

\* No operation is in progress and no callback is waiting.
Quiet == uiq = <<>> /\ \A t \in Threads : pc[t] \in {"idle", "exited"}

\* Operations run one after the other: nothing overlaps.
Next ==
    \/ \E t \in Threads : Step(t)
    \/ Quiet /\ Start
    \/ (\A t \in Workers : pc[t] = "idle") /\ UiRun("ui")

Spec == Init /\ [][Next]_vars

\* The login worker runs beside the UI thread's requests and restores:
\* every operation that installs a token, none that removes the header.
StartRace ==
    \/ \E in \in RequestInputs : StartRequest("ui", in)
    \/ StartRestore("ui")
    \/ StartAuthMount("ui")
    \/ StartLogin("worker")

NextRace ==
    \/ \E t \in Threads : ApiStep(t) \/ LoginStep(t)
    \/ StartRace
    \/ UiRun("ui")

\* The interleavings are explored against collaborators that meet no fault.
InitRace == InitWith(MaxFaults)

SpecRace == InitRace /\ [][NextRace]_vars

\* Every sign-in trigger (on_button_pressed, key_enter) schedules
\* _start_auth_flow, which starts a worker thread (main.py, 389-447,
\* 664-672).  The logins run to their end, get_current_user and
\* show_main_app included, against collaborators that meet no fault.
NextLogins ==
    \/ \E w \in Workers : StartLogin(w)
    \/ \E t \in Threads :
          \/ WorkerAuthenticate(t) \/ WorkerInstall(t) \/ WorkerHandle(t)
          \/ WorkerGetUser(t) \/ WorkerNotify(t)
          \/ SetTokenAssign(t) \/ SetTokenHeader(t)
          \/ RequestSend(t)
          \/ ShowMainToken(t) \/ ShowMainHandle(t) \/ ShowMainGetUser(t)
          \/ ShowMainSwitch(t)
    \/ UiRun("ui")

SpecLogins == InitRace /\ [][NextLogins]_vars

\* One call of _request on a client just constructed, against
\* collaborators that deviate up to MaxFaults times.
NextRequest ==
    \/ ops = 0 /\ \E in \in RequestInputs : StartRequest("ui", in)
    \/ \E t \in Threads : ApiStep(t)

SpecRequest == InitWith(0) /\ [][NextRequest]_vars

\* One login on a client just constructed, run to its end against
\* collaborators that deviate up to MaxFaults times.  The worker is a
\* thread of its own and every call it makes returns (the network calls
\* carry a timeout), so it always takes its next step.
NextLogin ==
    \/ ops = 0 /\ StartLogin("worker")
    \/ \E t \in Threads :
          \/ WorkerAuthenticate(t) \/ WorkerInstall(t) \/ WorkerHandle(t)
          \/ WorkerGetUser(t) \/ WorkerNotify(t)
          \/ ApiStep(t)

SpecLoginFair == InitWith(0) /\ [][NextLogin]_vars /\ WF_vars(NextLogin)

\* The App starts: on_mount's restore loop, run to its end.
NextStartup ==
    \/ StartStartup("ui")
    \/ \E t \in Threads :
          \/ BootStep(t)
          \/ SetTokenAssign(t) \/ SetTokenHeader(t)
          \/ RestoreLoad(t) \/ RestoreBind(t) \/ RestoreProbe(t)
          \/ RestoreRefresh(t) \/ RestoreSave(t) \/ RestoreBindAgain(t)

SpecStartup == Init /\ [][NextStartup]_vars

\* Every call the loop makes returns (each network call has a timeout,
\* api_interface.py 592; sleep returns), so the UI thread always takes its
\* next step.
SpecStartupFair == Init /\ [][NextStartup]_vars /\ WF_vars(NextStartup)

\* ----------------------------------------------------------------------
\* What an operation's record of calls shows.
\* ----------------------------------------------------------------------
\* The calls thread t made from the first attempt of its _request on (the
\* worker's closing notification is no part of them).
ReqLog(t) ==
    LET s == calls[t]
        firsts == {i \in DOMAIN s : s[i].ev = "send" /\ s[i].att = "first"}
        last == IF s # <<>> /\ s[Len(s)].ev = "notify" THEN Len(s) - 1
                ELSE Len(s)
    IN IF firsts = {} THEN <<>>
       ELSE SubSeq(s, CHOOSE i \in firsts : \A j \in firsts : i <= j, last)

Count(s, ev) == Cardinality({i \in DOMAIN s : s[i].ev = ev})
Sends(t) == Count(ReqLog(t), "send")
Restores(t) == Count(ReqLog(t), "restore")
Retries(t) ==
    {i \in DOMAIN ReqLog(t) :
        ReqLog(t)[i].ev = "send" /\ ReqLog(t)[i].att # "first"}

\* Thread t's _request has handed its result, or its exception, back.
Returned(t) ==
    /\ rq[t].first # NoResp
    /\ rv[t].kind \in {"ok", "http", "decode", "transport"}

\* No collaborator has deviated since thread t's operation began.
FaultFree(t) == env.faults = pre[t].faults

\* The request is a call of _request made on its own, which found the
\* client without a token the backend accepts.
LoneRequest(t) ==
    /\ op[t] = "request"
    /\ rq[t].first # NoResp
    /\ \A a \in pre[t].valid : pre[t].header # Bearer(a)

\* ----------------------------------------------------------------------
\* Properties of _request.
\* ----------------------------------------------------------------------
\* C1: one call of _request with retry=True sends the caller's request to
\* the backend at most twice (the restore's probe and refresh calls are
\* not counted).
C1_AtMostTwoSends == \A t \in Threads : Sends(t) <= 2

\* C2: try_restore_session is invoked at most once for one call of
\* _request.
C2_RestoreAtMostOnce == \A t \in Threads : Restores(t) <= 1

\* C3: after an auth failure and a successful restore the request is sent
\* again with the verb, the parameters and the body of the first attempt,
\* whatever the verb; it is sent again once only, and what that attempt
\* yields is what the caller receives.
C3_RetryIdentical ==
    \A t \in Threads :
        LET s == ReqLog(t) IN
        /\ \A i \in Retries(t) :
              /\ s[i].verb = s[1].verb
              /\ s[i].handle = s[1].handle
              /\ s[i].body = s[1].body
        /\ Cardinality(Retries(t)) <= 1
        /\ (Returned(t) /\ Retries(t) # {}) => rv[t] = rq[t].retried

\* The persisted blob holds an access token the backend rejects, and the
\* GET that thread t made on its own met no fault.
StaleAccess(t) ==
    /\ LoneRequest(t)
    /\ rq[t].method = "GET"
    /\ FaultFree(t)
    /\ pre[t].store.kind = "dict"
    /\ pre[t].store.wrapped
    /\ pre[t].store.access # NoVal
    /\ pre[t].store.access \notin pre[t].valid

\* The token a refresh handed to thread t's restore.
Refreshed(t) ==
    {ReqLog(t)[i].tok : i \in {j \in DOMAIN ReqLog(t) :
                                  ReqLog(t)[j].ev = "refreshed"}}

\* C4: the access token is expired and the refresh token valid: a GET
\* returns its payload after exactly one restore and exactly one retry,
\* and the persisted blob then holds the new access token.
C4_ExpiredAccessRecovers ==
    \A t \in Threads :
        (/\ StaleAccess(t)
         /\ pre[t].store.refresh # NoVal
         /\ env.refreshOk
         /\ Returned(t))
        => /\ rv[t] = Ok
           /\ Restores(t) = 1
           /\ Cardinality(Retries(t)) = 1
           /\ Refreshed(t) = {store.access}
           /\ store.access # pre[t].store.access
           /\ header = Bearer(store.access)

C4_Witness ==
    \E t \in Threads :
        /\ StaleAccess(t)
        /\ pre[t].store.refresh # NoVal
        /\ env.refreshOk
        /\ Returned(t)
        /\ rv[t] = Ok
        /\ Sends(t) = 2

\* C5: the backend rejects the persisted access token and the refresh
\* fails: a GET ends with the auth failure, and nothing is written to the
\* store during the call.
C5_BothInvalidSurfaces ==
    \A t \in Threads :
        (StaleAccess(t) /\ ~env.refreshOk)
        => /\ Count(calls[t], "save") = 0
           /\ store = pre[t].store
           /\ Returned(t) => (rv[t].kind = "http" /\
                               rv[t].status \in {400, 401, 403})

C5_Witness ==
    \E t \in Threads :
        /\ StaleAccess(t)
        /\ ~env.refreshOk
        /\ Returned(t)
        /\ Count(calls[t], "refresh") > 0
        /\ rv[t] = Http(401)

\* C6: when the restore obtained new tokens by a refresh, save_tokens_full
\* is called with them before the request is sent again, and a write that
\* went through is in the store when it is sent.
C6_PersistBeforeRetry ==
    \A t \in Threads :
        LET s == ReqLog(t) IN
        \A i \in Retries(t) : \A j \in 1..(i - 1) :
            s[j].ev = "refreshed"
            => \E k \in (j + 1)..(i - 1) :
                  /\ s[k].ev = "save"
                  /\ s[k].tok = s[j].tok
                  /\ (s[k].body = "written" /\ Count(SubSeq(s, k + 1, i), "save") = 0)
                     => s[i].stored = s[j].tok

C6_Witness ==
    \E t \in Threads :
        LET s == ReqLog(t) IN
        \E i \in Retries(t) : \E k \in 2..(i - 1) :
            /\ s[k - 1].ev = "refreshed"
            /\ s[k].ev = "save"
            /\ s[k].body = "written"
            /\ s[i].stored = s[k].tok

\* C7: when the first attempt is answered 400, 401 or 403 and the restore
\* fails, the caller receives the failure of that attempt and the request
\* is not sent a second time.
C7_FailedRestoreSurfaces ==
    \A t \in Threads :
        (/\ rq[t].first # NoResp
         /\ rq[t].first.kind = "resp"
         /\ rq[t].first.status \in {400, 401, 403}
         /\ rq[t].restored # <<>>
         /\ ~rq[t].restored[1])
        => /\ Sends(t) = 1
           /\ Returned(t) => rv[t] = Http(rq[t].first.status)

\* The first attempt failed for a reason that is no auth failure: a
\* transport error, or a status of 400 and above other than 400/401/403.
OtherFailure(r) ==
    \/ r.kind = "neterr"
    \/ r.kind = "resp" /\ r.status >= 400 /\ r.status \notin {400, 401, 403}

\* C8: a first attempt that fails for another reason is surfaced to the
\* caller after exactly one network call, with no restore and no retry.
C8_OtherFailureSurfaces ==
    \A t \in Threads :
        OtherFailure(rq[t].first)
        => /\ Returned(t)
           /\ rv[t] = (IF rq[t].first.kind = "neterr" THEN Transport
                        ELSE Http(rq[t].first.status))
           /\ Len(ReqLog(t)) = 1

C8_Witness ==
    \E t \in Threads :
        /\ OtherFailure(rq[t].first)
        /\ rq[t].first.kind = "resp"
        /\ store.kind = "dict"
        /\ Returned(t)

\* ----------------------------------------------------------------------
\* Properties of TokenState.
\* ----------------------------------------------------------------------
\* C9: after any sequence of set_token, try_restore_session, interactive
\* login, show_main_app, sign-out and show_auth_screen, a token that is set
\* has its Authorization header: 'Bearer ' followed by the token.
C9_HeaderFollowsToken ==
    Quiet => (token # NoVal => header = Bearer(token))

\* C10: no request is sent while api.token and the bearer token of the
\* Authorization header differ, whatever another thread's set_token is
\* doing.
C10_NoTornSend ==
    \A t \in Threads : \A i \in DOMAIN calls[t] :
        calls[t][i].ev = "send"
        => calls[t][i].auth = (IF calls[t][i].token = NoVal THEN NoVal
                               ELSE Bearer(calls[t][i].token))

\* ----------------------------------------------------------------------
\* Properties of the interactive login.
\* ----------------------------------------------------------------------
\* The login workers that have started and not yet finished.
InFlight == {w \in Workers : pc[w] # "idle"}

\* C11: while one login worker is in flight a second sign-in trigger
\* starts no other, so no two workers can both install a token and bind a
\* handle; TokenState never ends with the access token of one login
\* result and the handle of another.
C11_OneLoginInFlight ==
    /\ Cardinality(InFlight) <= 1
    /\ \A w \in Workers :
          (/\ InFlight = {}
           /\ wk[w].result.kind = "dict"
           /\ token = wk[w].result.access)
          => handle = wk[w].result.username

\* Worker w has called set_token with the access token of its result and
\* then bound the handle to the result's username.
HasInstalled(w) ==
    LET s == calls[w]
        cred == wk[w].result
    IN /\ cred.access # NoVal
          => \E i \in DOMAIN s :
                /\ s[i].ev = "install"
                /\ s[i].tok = cred.access
                /\ cred.username # NoVal
                   => \E j \in DOMAIN s :
                         /\ i < j
                         /\ s[j].ev = "bind"
                         /\ s[j].handle = cred.username
                         /\ s[j].token = cred.access

\* C12: a successful login has installed its access token and bound its
\* handle when the worker schedules the UI callbacks, so a token is
\* installed, with its header, whenever the transition to the main view
\* runs.
C12_InstallBeforeNotify ==
    /\ \A w \in Workers :
          pc[w] = "wk_notify"
          => /\ HasInstalled(w)
             /\ wk[w].result.access # NoVal
                => (token # NoVal /\ header = Bearer(token))
    /\ \A i \in DOMAIN uiq :
          (uiq[i].fn = "show_main_app" /\ uiq[i].cred.access # NoVal)
          => (token # NoVal /\ header = Bearer(token))
    /\ (/\ op["ui"] = "show_main_app"
        /\ pc["ui"] = "sm_token"
        /\ wk["ui"].result.access # NoVal)
       => (token # NoVal /\ header = Bearer(token))

C12_Witness ==
    /\ op["ui"] = "show_main_app"
    /\ pc["ui"] = "sm_token"
    /\ wk["ui"].result.access # NoVal
    /\ token = wk["ui"].result.access
    /\ handle = wk["ui"].result.username

\* ----------------------------------------------------------------------
\* Properties of try_restore_session, called on its own.
\* ----------------------------------------------------------------------
\* Thread t's try_restore_session has returned.
RestoreDone(t) ==
    /\ op[t] = "restore"
    /\ pc[t] = "idle"
    /\ rv[t].kind = "bool"

\* The blob the restore found holds an access token in its tokens wrapper.
FullBlob(b) == b.kind = "dict" /\ b.wrapped /\ b.access # NoVal

\* tokens.get('refresh_token') or found.get('refresh_token')
HasRefresh(b) == b.refresh # NoVal \/ b.topRefresh # NoVal

\* How the validation probes of thread t's restore were answered.
Probed(t) ==
    {calls[t][i].body : i \in {j \in DOMAIN calls[t] :
                                 calls[t][j].ev = "probe"}}

\* The tokens thread t's refresh calls handed back.
RefreshedTo(t) ==
    {calls[t][i].tok : i \in {j \in DOMAIN calls[t] :
                                calls[t][j].ev = "refreshed"}}

\* The restore asked for a refresh once; with a usable result it installed
\* the new token, called save_tokens_full with it and returned True, and
\* without one it returned False.
RefreshedOnce(t) ==
    /\ Count(calls[t], "refresh") = 1
    /\ IF RefreshedTo(t) # {}
       THEN /\ rv[t].val
            /\ RefreshedTo(t) = {token}
            /\ header = Bearer(token)
            /\ \E i \in DOMAIN calls[t] :
                  /\ calls[t][i].ev = "save"
                  /\ calls[t][i].tok = token
                  /\ calls[t][i].body = "written" => store.access = token
       ELSE ~rv[t].val

\* C13: with a full blob and a refresh token, a probe answered 400, 401 or
\* 403 makes the restore attempt the refresh: on success it persists the
\* new pair, installs the new access token and returns true, on failure
\* it returns false.
C13_RejectedProbeRefreshes ==
    \A t \in Threads :
        (/\ RestoreDone(t)
         /\ FullBlob(pre[t].store)
         /\ HasRefresh(pre[t].store)
         /\ Probed(t) \cap {"400", "401", "403"} # {})
        => RefreshedOnce(t)

\* C14: with a full blob and a refresh token, a probe that fails for any
\* reason other than an auth rejection, a network error or a status such
\* as 404 or 500, still makes the restore attempt the refresh.
C14_OtherProbeFailureRefreshes ==
    \A t \in Threads :
        (/\ RestoreDone(t)
         /\ FullBlob(pre[t].store)
         /\ HasRefresh(pre[t].store)
         /\ Probed(t) \cap {"neterr", "404", "500"} # {})
        => RefreshedOnce(t)

\* C14, as the code has it: the refresh follows a probe that raised; a
\* probe answered with a failure status that is no auth rejection ends
\* the restore with false, and no refresh is asked for.
C14_OnlyRaisedProbeRefreshes ==
    \A t \in Threads :
        (/\ RestoreDone(t)
         /\ FullBlob(pre[t].store)
         /\ HasRefresh(pre[t].store))
        => /\ "neterr" \in Probed(t) => RefreshedOnce(t)
           /\ Probed(t) \cap {"404", "500"} # {}
              => (Count(calls[t], "refresh") = 0 /\ ~rv[t].val)

C14_Witness ==
    \E t \in Threads :
        /\ RestoreDone(t)
        /\ FullBlob(pre[t].store)
        /\ "neterr" \in Probed(t)
        /\ RefreshedTo(t) = {token}
        /\ rv[t].val

\* The blob holds a refresh token and no access token, in either shape.
RefreshOnly(b) == b.kind = "dict" /\ b.access = NoVal /\ HasRefresh(b)

\* C15: for every persisted blob that holds a refresh token and no access
\* token, at the top level or inside the tokens wrapper, the restore
\* attempts the refresh directly.
C15_BothShapesRefresh ==
    \A t \in Threads :
        (RestoreDone(t) /\ RefreshOnly(pre[t].store))
        => /\ Count(calls[t], "refresh") >= 1
           /\ Count(calls[t], "probe") = 0

\* C16: given a blob that holds only a refresh token, the restore calls
\* refresh exactly once; when it succeeds the restore persists a blob with
\* both an access and a refresh token, installs the new access token,
\* binds the handle to the blob's username and returns true; when it
\* fails the restore returns false.
C16_RefreshOnlyPath ==
    \A t \in Threads :
        (RestoreDone(t) /\ RefreshOnly(pre[t].store))
        => /\ RefreshedOnce(t)
           /\ RefreshedTo(t) # {}
              => /\ \A i \in DOMAIN calls[t] :
                       (calls[t][i].ev = "save" /\ calls[t][i].body = "written")
                       => (store.access # NoVal /\ store.refresh # NoVal)
                 /\ pre[t].store.username # NoVal
                    => handle = pre[t].store.username

\* C17: with no credential blob the restore returns false, having made no
\* network call, neither probe nor refresh, and no write to the store.
C17_NoBlobNoCalls ==
    \A t \in Threads :
        (RestoreDone(t) /\ pre[t].store.kind = "absent")
        => /\ ~rv[t].val
           /\ \A i \in DOMAIN calls[t] : calls[t][i].ev = "restore"
           /\ store = pre[t].store

C17_Witness ==
    \E t \in Threads :
        /\ RestoreDone(t)
        /\ pre[t].store.kind = "absent"
        /\ Len(calls[t]) = 1

\* The restore found a full blob whose access token the backend accepts,
\* and no collaborator deviated during the call.
ValidAccess(t) ==
    /\ RestoreDone(t)
    /\ FaultFree(t)
    /\ FullBlob(pre[t].store)
    /\ pre[t].store.access \in pre[t].valid

\* The call came right after another call of the restore, which found
\* the same blob, met no fault and returned true.
SecondCall(t) ==
    /\ pre[t].prevOp = "restore"
    /\ pre[t].prevRv = Bool(TRUE)
    /\ pre[t].prevClean
    /\ pre[t].prevStore = pre[t].store

\* C18: with a full blob whose access token the backend accepts, two
\* calls of the restore in a row both return true, neither asks for a
\* refresh, neither writes to the store, and TokenState after the second
\* is TokenState after the first.
C18_RestoreIdempotent ==
    \A t \in Threads :
        ValidAccess(t)
        => /\ rv[t].val
           /\ Count(calls[t], "refresh") = 0
           /\ Count(calls[t], "save") = 0
           /\ store = pre[t].store
           /\ token = pre[t].store.access
           /\ header = Bearer(token)
           /\ SecondCall(t)
              => /\ token = pre[t].token
                 /\ header = pre[t].header
                 /\ handle = pre[t].handle

C18_Witness ==
    \E t \in Threads :
        /\ ValidAccess(t)
        /\ SecondCall(t)
        /\ rv[t].val

\* C19: the restore returns true exactly when the probe succeeded with
\* the blob's access token installed, or a refresh handed back an access
\* token that is now the installed one; in every other case it returns
\* false.
C19_TrueIffUsable ==
    \A t \in Threads :
        RestoreDone(t)
        => (rv[t].val
            <=> \/ /\ "200" \in Probed(t)
                   /\ token = pre[t].store.access
                   /\ header = Bearer(token)
                \/ /\ RefreshedTo(t) = {token}
                   /\ header = Bearer(token))

C19_Witness ==
    \E t \in Threads :
        /\ RestoreDone(t)
        /\ rv[t].val
        /\ RefreshedTo(t) = {token}
        /\ Probed(t) = {"401"}

\* C20: after the sign-out action or show_auth_screen TokenState is
\* cleared entirely: no access token is held, the Authorization header is
\* absent and the handle is the unauthenticated sentinel.
C20_ClearedOnSignOut ==
    \A t \in Threads :
        (op[t] \in {"show_auth_screen", "sign_out"} /\ Idle(t))
        => /\ token = NoVal
           /\ header = NoVal
           /\ handle = Sentinel

Events(s, ev) == {i \in DOMAIN s : s[i].ev = ev}

\* The worker has sent the success notifications.
NotifiedSuccess(w) ==
    \E i \in Events(calls[w], "notify") : calls[w][i].body = "show_main_app"

\* The worker has delivered an authentication failure.
NotifiedFailure(w) ==
    \E i \in Events(calls[w], "notify") : calls[w][i].body = "auth_failed"

\* C22: no false success: a login worker sends the success notifications
\* (and so schedules the UI transition) only after it has installed an
\* access token taken from the login result.
C22_NoFalseSuccess ==
    \A w \in Workers : \A i \in Events(calls[w], "notify") :
        calls[w][i].body = "show_main_app"
        => \E j \in Events(calls[w], "install") :
              /\ j < i
              /\ calls[w][j].tok # NoVal
              /\ calls[w][j].tok = wk[w].result.access

\* The worker's authenticate() ended as `how`, and the worker has acted on it.
Authenticated(w, how) ==
    /\ op[w] = "login"
    /\ \E i \in Events(calls[w], "authenticate") : calls[w][i].body \in how

\* What the fallback requires once it applies: one look at the persisted
\* credentials; a blob found there is the login result and the login goes
\* on as a success; without one the failure is delivered and no success
\* notification is sent.
FallbackApplied(w) ==
    LET s == calls[w]
        looks == Events(s, "get_stored_credentials")
    IN /\ Cardinality(looks) = 1
       /\ \A i \in looks :
             IF s[i].body = "found"
             THEN /\ wk[w].result.kind = "dict"
                  /\ wk[w].result.access = s[i].tok
                  /\ ~NotifiedFailure(w)
                  /\ pc[w] = "idle" => NotifiedSuccess(w)
             ELSE /\ NotifiedFailure(w)
                  /\ ~NotifiedSuccess(w)

\* C23 as stated: whenever authenticate() fails, by raising or by returning
\* no result, the worker checks the persisted credentials exactly once and
\* goes on as a success with the blob found, or else delivers the failure.
C23_FallbackOnFailure ==
    \A w \in Workers :
        Authenticated(w, {"raised", "none"}) => FallbackApplied(w)

\* C23 as the code has it: the fallback applies when authenticate() raised.
\* When it returned no result the persisted credentials are not looked at
\* and the failure is delivered; when it returned a result they are not
\* looked at either.
C23_FallbackWhenRaised ==
    \A w \in Workers :
        /\ Authenticated(w, {"raised"}) => FallbackApplied(w)
        /\ Authenticated(w, {"none"})
           => /\ Events(calls[w], "get_stored_credentials") = {}
              /\ NotifiedFailure(w)
              /\ ~NotifiedSuccess(w)
        /\ Authenticated(w, {"ok"})
           => Events(calls[w], "get_stored_credentials") = {}

\* A login whose authenticate() raised went on as a success with the blob
\* the fallback found.
C23_Witness ==
    /\ Authenticated("worker", {"raised"})
    /\ \E i \in Events(calls["worker"], "get_stored_credentials") :
          calls["worker"][i].body = "found"
    /\ NotifiedSuccess("worker")
    /\ pc["worker"] = "idle"

\* ----------------------------------------------------------------------
\* Properties of the startup restore loop.
\* ----------------------------------------------------------------------
\* The loop is over and on_mount has switched mode.
BootOver == op["ui"] = "startup" /\ pc["ui"] = "idle"

\* An attempt that failed for good: there was no blob, or the backend
\* turned the refresh token down.
DefinitiveFailure(try) == ~try.ok /\ (try.absent \/ try.rejected)

\* C24 as stated: the first attempt that succeeds or definitively fails
\* ends the loop: no attempt is started after it.
C24_DecisiveAttemptEndsLoop ==
    \A i \in DOMAIN boot.tries :
        (boot.tries[i].ok \/ DefinitiveFailure(boot.tries[i]))
        => boot.attempts = i

\* C24 as the code has it: only a successful attempt ends the loop early.
\* No attempt follows a success; after a failed attempt of any kind the
\* loop goes on, so that it is over only after a success or with the
\* budget spent.
C24_OnlySuccessEndsLoop ==
    /\ \A i \in DOMAIN boot.tries : boot.tries[i].ok => boot.attempts = i
    /\ BootOver
       => \/ boot.tries # <<>> /\ boot.tries[Len(boot.tries)].ok
          \/ boot.elapsed >= Budget

\* A definitive failure (no blob) was followed by another attempt.
C24_Witness ==
    /\ Len(boot.tries) >= 2
    /\ DefinitiveFailure(boot.tries[1])
    /\ boot.tries[1].absent
    /\ boot.attempts >= 2

\* C25: the startup loop ends whatever its attempts return, and it calls
\* try_restore_session at most Budget / Backoff = 20 times.
C25_BoundedStartupRetry ==
    /\ <>BootOver
    /\ [](boot.attempts * Backoff <= Budget)

\* Every attempt failed and the loop ended after twenty of them, on the
\* auth screen.
C25_Witness ==
    /\ BootOver
    /\ boot.attempts * Backoff = Budget
    /\ \A i \in DOMAIN boot.tries : ~boot.tries[i].ok
    /\ Len(boot.tries) = boot.attempts
    /\ mode = "auth"

\* ----------------------------------------------------------------------
\* Properties of try_restore_session's failures.
\* ----------------------------------------------------------------------
\* C26: a store write that fails after a successful refresh is not fatal:
\* the restore still returns true with the new token installed, and the
\* request that asked for the restore sends its retry with the new token.
C26_SaveFailureNotFatal ==
    \A t \in Threads : \A i \in Events(calls[t], "save") :
        calls[t][i].body = "raised"
        => /\ RestoreDone(t)
              => /\ rv[t].val
                 /\ token = calls[t][i].tok
                 /\ header = "Bearer " \o calls[t][i].tok
           /\ (/\ op[t] = "request"
               /\ Returned(t)
               /\ pc[t] = "idle")
              => \E j \in Events(calls[t], "send") :
                    /\ j > i
                    /\ calls[t][j].att # "first"
                    /\ calls[t][j].auth = "Bearer " \o calls[t][i].tok
                    /\ \A k \in (i + 1)..(j - 1) : calls[t][k].ev # "restore"

\* A request was rejected, the refresh succeeded, the store write failed,
\* and the retry with the new token was answered.
C26_Witness ==
    /\ op["ui"] = "request"
    /\ pc["ui"] = "idle"
    /\ rv["ui"] = Ok
    /\ \E i \in Events(calls["ui"], "save") :
          /\ calls["ui"][i].body = "raised"
          /\ token = calls["ui"][i].tok
          /\ store.access # token

\* The labels a call of try_restore_session returns to.
AfterRestore == {"rq_restored", "rq_handled", "am_restored", "bt_restored"}

\* The refresh call of the restore did not yield tokens: it raised or its
\* result was no usable mapping.
RefreshFailed(t) ==
    \E i \in Events(calls[t], "refresh") :
        calls[t][i].body \in {"malformed", "raise"}

\* C27: try_restore_session never raises: whatever the blob's shape and
\* whatever the probe, the refresh call and the store write do, raising
\* included, the call hands a boolean back, and it is false when the
\* refresh failed.
C27_RestoreNeverRaises ==
    \A t \in Threads :
        /\ (op[t] = "restore" /\ pc[t] = "idle") => rv[t].kind = "bool"
        /\ pc[t] \in AfterRestore => rv[t].kind = "bool"
        /\ (RestoreDone(t) /\ RefreshFailed(t)) => ~rv[t].val

\* A restore whose probe raised and whose refresh call raised returned
\* false.
C27_Witness ==
    /\ RestoreDone("ui")
    /\ ~rv["ui"].val
    /\ \E i \in Events(calls["ui"], "probe") : calls["ui"][i].body = "neterr"
    /\ \E i \in Events(calls["ui"], "refresh") : calls["ui"][i].body = "raise"

\* C30: a malformed refresh result is never taken for a session: no token
\* is installed from it, nothing is written to the store, and
\* try_restore_session returns false.
C30_MalformedRefreshRefused ==
    \A t \in Threads :
        (/\ RestoreDone(t)
         /\ \E i \in Events(calls[t], "refresh") :
               calls[t][i].body = "malformed")
        => /\ ~rv[t].val
           /\ Events(calls[t], "save") = {}
           /\ Events(calls[t], "refreshed") = {}
           /\ store = pre[t].store
           /\ token = (IF FullBlob(pre[t].store) THEN pre[t].store.access
                       ELSE pre[t].token)

\* A restore from a refresh-only blob met a malformed refresh result and
\* returned false, the client still without a token.
C30_Witness ==
    /\ RestoreDone("ui")
    /\ ~rv["ui"].val
    /\ ~FullBlob(pre["ui"].store)
    /\ token = NoVal
    /\ \E i \in Events(calls["ui"], "refresh") :
          calls["ui"][i].body = "malformed"

\* ----------------------------------------------------------------------
\* Properties of the failures _request surfaces.
\* ----------------------------------------------------------------------
\* C28: a request that ends with an auth rejection after its restore (the
\* restore failed, or the retry was rejected too) surfaces a failure whose
\* type is not that of a generic HTTP error: a 404 or a 500 leaves
\* _request as a requests.HTTPError, the kind "http".
C28_AuthFailureTyped ==
    \A t \in Threads :
        (/\ Returned(t)
         /\ Restores(t) > 0
         /\ rv[t].kind # "ok"
         /\ rv[t].status \in {400, 401, 403})
        => rv[t].kind # "http"

\* The response to one of the request's attempts was a success whose body
\* cannot be decoded.
Undecodable(t) ==
    \/ rq[t].first = Resp(200, FALSE)
    \/ rq[t].retried = Decode

\* C29: a success response whose body cannot be decoded surfaces a decoding
\* failure, not an HTTP failure, and is followed by no restore and no
\* further attempt.
C29_DecodeFailureSurfaces ==
    \A t \in Threads :
        (Undecodable(t) /\ Returned(t))
        => /\ rv[t] = Decode
           /\ ReqLog(t)[Len(ReqLog(t))].ev = "send"
           /\ rq[t].first = Resp(200, FALSE) => Len(ReqLog(t)) = 1

\* ----------------------------------------------------------------------
\* Properties of TokenState under concurrent logins.
\* ----------------------------------------------------------------------
\* C31: whatever threads are inside set_token, the access token a reader
\* finds (now, or when it made one of its calls) is absent or is a value
\* that was passed to some set_token call: no partial write is seen.
C31_AtomicTokenInstall ==
    /\ token \in {NoVal} \cup passed
    /\ \A t \in Threads : \A i \in DOMAIN calls[t] :
          calls[t][i].token \in {NoVal} \cup passed

\* One login's set_token has just stored its token over the token the
\* other login installed, which the other's request had read.
C31_Witness ==
    /\ pc["worker2"] = "st_header"
    /\ Cardinality(passed) >= 2
    /\ token = arg["worker2"]
    /\ \E i \in DOMAIN calls["worker"] :
          /\ calls["worker"][i].ev = "send"
          /\ calls["worker"][i].token \notin {NoVal, token}

\* ----------------------------------------------------------------------
\* Properties of one call of try_restore_session.
\* ----------------------------------------------------------------------
\* The calls of kind ev that the invocation of try_restore_session
\* recorded at position i of s made: those up to the next invocation.
MadeBy(s, i, ev) ==
    {j \in Events(s, ev) :
        /\ j > i
        /\ \A k \in Events(s, "restore") : k > i => j < k}

\* C32: try_restore_session is a single attempt: one invocation makes at
\* most one validation probe and at most one refresh call.
C32_RestoreSingleAttempt ==
    \A t \in Threads : \A i \in Events(calls[t], "restore") :
        /\ Cardinality(MadeBy(calls[t], i, "probe")) <= 1
        /\ Cardinality(MadeBy(calls[t], i, "refresh")) <= 1

\* The restore a rejected request asked for probed once, refreshed once
\* and returned true.
C32_Witness ==
    /\ op["ui"] = "request"
    /\ rq["ui"].restored = <<TRUE>>
    /\ Cardinality(MadeBy(calls["ui"], 2, "probe")) = 1
    /\ Cardinality(MadeBy(calls["ui"], 2, "refresh")) = 1

\* C33: the token a restore installs from a full blob is provisional: when
\* try_restore_session returns false, the access token, the Authorization
\* header and the handle are what they were before the call.
C33_FailedRestoreRollsBack ==
    \A t \in Threads :
        (RestoreDone(t) /\ ~rv[t].val)
        => /\ token = pre[t].token
           /\ header = pre[t].header
           /\ handle = pre[t].handle

\* ----------------------------------------------------------------------
\* Properties of a restore beside a login.
\* ----------------------------------------------------------------------
\* C34: a try_restore_session started by an auth-failed request of the UI
\* thread, interleaved with a successful login of the worker, does not
\* leave the older persisted access token in TokenState once the worker
\* has installed the token authenticate() returned: with the request over
\* and the worker past its set_token, the token is not the access token of
\* the blob the request found persisted.
C34_LoginTokenSurvivesRestore ==
    LET new == wk["worker"].result.access
        older == pre["ui"].store.access
    IN (/\ op["ui"] = "request"
        /\ pc["ui"] = "idle"
        /\ Restores("ui") > 0
        /\ op["worker"] = "login"
        /\ new # NoVal
        /\ \E i \in Events(calls["worker"], "install") :
              calls["worker"][i].tok = new
        /\ pc["worker"] \in {"wk_handle", "wk_me", "wk_notify", "idle"}
        /\ older \notin {NoVal, new})
       => token # older

\* ----------------------------------------------------------------------
\* Properties of App.on_mount's outcome.
\* ----------------------------------------------------------------------
\* C35: App.on_mount ends in exactly one of the modes "main" and "auth":
\* in "main" only if an attempt of the loop returned true, in "auth" when
\* every attempt within the budget failed.  Before its end no mode is set.
C35_StartupModeSelection ==
    LET succeeded == \E i \in DOMAIN boot.tries : boot.tries[i].ok
    IN /\ BootOver => mode \in {"main", "auth"}
       /\ (BootOver /\ mode = "main") => succeeded
       /\ (BootOver /\ ~succeeded) => mode = "auth"
       /\ (op["ui"] = "startup" /\ ~BootOver) => mode = NoVal

\* The loop failed once, then restored the session, and on_mount ended in
\* the main mode.
C35_Witness ==
    /\ BootOver
    /\ mode = "main"
    /\ Len(boot.tries) = 2
    /\ ~boot.tries[1].ok
    /\ boot.tries[2].ok

\* ----------------------------------------------------------------------
\* Properties of the login worker's end.
\* ----------------------------------------------------------------------
\* The notifications worker w has sent.
Notices(w) == Events(calls[w], "notify")

\* Worker w has ended, having delivered one outcome: the success
\* transition with its credential result, or the failure.
Delivered(w) ==
    /\ op[w] = "login"
    /\ pc[w] = "idle"
    /\ Cardinality(Notices(w)) = 1
    /\ \A i \in Notices(w) :
          \/ /\ calls[w][i].body = "show_main_app"
             /\ \E k \in DOMAIN uiq :
                   uiq[k] = [fn |-> "show_main_app", cred |-> wk[w].result]
          \/ /\ calls[w][i].body = "auth_failed"
             /\ \E k \in DOMAIN uiq : uiq[k].fn = "auth_failed"

\* C36: every started login worker runs to its end: from authenticate() on
\* it eventually delivers to the UI thread one outcome, the success
\* transition or the authentication failure, never both and never neither.
C36_LoginRunsToOutcome ==
    /\ [](\A w \in Workers :
             /\ Cardinality(Notices(w)) <= 1
             /\ (op[w] = "login" /\ pc[w] = "idle") => Delivered(w))
    /\ \A w \in Workers : (pc[w] = "wk_auth") ~> Delivered(w)

\* A login whose authenticate() raised with nothing persisted ended with
\* the failure delivered.
C36_Witness ==
    /\ Delivered("worker")
    /\ NotifiedFailure("worker")
    /\ Authenticated("worker", {"raised"})
    /\ uiq = <<[fn |-> "auth_failed", cred |-> NoCred]>>

\* ----------------------------------------------------------------------
\* Properties of the parameters _request sends.
\* ----------------------------------------------------------------------
\* C37: a retried request carries the handle parameter computed for the
\* first attempt: the handle that was current before the restore (or the
\* caller's own), also when the restore bound api.handle to another
\* username.
C37_RetryKeepsHandleParam ==
    \A t \in Threads :
        LET s == ReqLog(t) IN
        \A i \in Retries(t) :
            /\ s[i].handle = s[1].handle
            /\ s[i].handle = rq[t].handle

\* The restore bound the handle to the blob's username, and the retry
\* still carried the handle of before.
C37_Witness ==
    /\ op["ui"] = "request"
    /\ Retries("ui") # {}
    /\ handle # pre["ui"].handle
    /\ \A i \in Retries("ui") : ReqLog("ui")[i].handle = pre["ui"].handle
    /\ pre["ui"].handle # NoVal

\* C38 as stated: every request _request sends carries a handle parameter
\* and, when a token is set, the bearer header of that token; the handle
\* sent is the caller's own when the caller supplied one, and otherwise
\* the handle that was current at the first attempt.
C38_HandleAndBearerSent ==
    \A t \in Threads : \A i \in Events(calls[t], "send") :
        /\ calls[t][i].handle # NoVal
        /\ calls[t][i].token # NoVal
           => calls[t][i].auth = "Bearer " \o calls[t][i].token

\* ----------------------------------------------------------------------
\* Properties of a failed login.
\* ----------------------------------------------------------------------
\* Worker w's authenticate() failed and the fallback, where it applies,
\* found no credentials; the worker has ended.
LoginFailed(w) ==
    /\ op[w] = "login"
    /\ pc[w] = "idle"
    /\ Authenticated(w, {"raised", "none"})
    /\ \A i \in Events(calls[w], "get_stored_credentials") :
          calls[w][i].body = "none"

\* C39: a login that fails delivers the failure and leaves TokenState as
\* it was when the login was started: the access token, the Authorization
\* header and the handle are unchanged.
C39_FailedLoginLeavesTokenState ==
    \A w \in Workers :
        LoginFailed(w)
        => /\ NotifiedFailure(w)
           /\ Events(calls[w], "install") = {}
           /\ Events(calls[w], "bind") = {}
           /\ token = pre[w].token
           /\ header = pre[w].header
           /\ handle = pre[w].handle

\* A login failed on a client that held a session: the session is still
\* there.
C39_Witness ==
    /\ LoginFailed("worker")
    /\ NotifiedFailure("worker")
    /\ token # NoVal
    /\ token = pre["worker"].token
    /\ header = "Bearer " \o token

====
